---- MODULE Spec2Model ----
(***************************************************************************)
(* StratGen backend: the modification pipeline (routes/canvas.py,          *)
(* agents/orchestrator_agent.py) and the initial generation pipeline       *)
(* (OrchestratorAgent.execute_campaign), as state machines over the        *)
(* Supabase tables campaign_assets, asset_versions, canvas_modifications,  *)
(* campaigns and chat_messages.                                            *)
(*                                                                         *)
(* Scheduling: one asyncio event loop.  A coroutine keeps the loop until   *)
(* it awaits real I/O; the Supabase client and the agno Agent.run calls    *)
(* are synchronous, so the only suspension points are the awaits that end  *)
(* in httpx / asyncio.to_thread / asyncio.gather.  The variable loop names *)
(* the task that holds the event loop (0: idle).  The version insert, the  *)
(* generator call with the update that follows it, and the final write of  *)
(* a batch are separate steps, so the order of the writes of one action is *)
(* visible in the reachable states.                                        *)
(*                                                                         *)
(* Contents are opaque tokens 1..MaxContent; 0 stands for None / {} (a     *)
(* falsy value in Python).  Asset ids are positions in the table; 0 is     *)
(* None.                                                                   *)
(***************************************************************************)
EXTENDS Integers, Sequences, FiniteSets, TLC

\* ------------------------------------------------------------------ bounds
\* actions planned over all the modification requests of a run
MaxActions == 2
MaxDay == 2
MaxContent == 2
MaxInfl == 1
\* confirm_execute calls of a campaign
MaxRuns == 2
\* tokens of a message
MaxLen == 2
\* actions of the batch dispatched in SpecRequest
MaxBatch == 1
\* length of a color_scheme value
MaxColors == 3

VARIABLES
    assets,       \* campaign_assets rows of the campaign, id = position
    versions,     \* asset_versions rows in insertion order
    mods,         \* canvas_modifications rows, id = position
    tasks,        \* execute_modification_plan invocation of each modification
    loop,         \* the modification task holding the event loop, 0 if none
    resp,         \* modify_canvas' HTTP response for each modification
    poll,         \* last response of get_modification_status
    overwritten,  \* history: <<asset id, content>> pairs replaced by other content
    status,       \* campaigns.status
    progress,     \* chat_messages rows with event execution_progress
    exec,         \* the execute_campaign background task
    campaign,     \* the campaigns row: draft_json, final_draft_json
    http,         \* outcome of the last modify_canvas request
    call          \* a call of a pure function: its arguments and its result

vars == <<assets, versions, mods, tasks, loop, resp, poll, overwritten,
          status, progress, exec, campaign, http, call>>

modVars == <<assets, versions, mods, tasks, loop, resp, poll, overwritten>>
execVars == <<status, progress, exec>>
reqVars == <<campaign, http, call>>

\* ------------------------------------------------------------ helpers
Min(S) == CHOOSE x \in S : \A y \in S : x <= y
Max(S) == CHOOSE x \in S : \A y \in S : x >= y

Contents == 1..MaxContent

\* the agent names execute_modification_plan dispatches on, and one it does not
Agents == {"content_agent", "image_agent", "influencer_agent", "plan_agent",
           "other_agent"}

\* canvas.py: the agents that make modify_canvas dispatch to the background
AsyncAgents == {"image_agent", "influencer_agent", "plan_agent"}

RECURSIVE SeqsUpTo(_, _)
SeqsUpTo(S, n) ==
    IF n = 0 THEN {<<>>}
    ELSE LET shorter == SeqsUpTo(S, n - 1)
         IN shorter \cup {Append(s, x) : s \in {q \in shorter : Len(q) = n - 1}, x \in S}

\* plans RegenerationAgent._validate_plan accepts: a non-empty action list;
\* the agent names are not validated
Plans == {p \in SeqsUpTo(Agents, MaxActions) : Len(p) > 0}

Asset(type, day, content) ==
    [asset_type |-> type, day_number |-> day, content |-> content,
     status |-> "completed", meta |-> {}]

NoLast == [asset |-> 0, before |-> 0]

\* the campaigns row: draft_json and final_draft_json (0: {} / null); runs,
\* the confirm_execute calls so far, is history
Campaign(draft, final, runs) ==
    [draft_json |-> draft, final_draft_json |-> final, runs |-> runs]

NoCall == [fn |-> "none"]

NoPoll ==
    [mod |-> 0, status |-> "none", previous_content |-> "null",
     new_content |-> "null", seen |-> "null"]

\* ------------------------------------------------------------ asset store
\* _get_asset: the first campaign_assets row of (type, day), or None
GetAsset(type, day) ==
    LET S == {a \in 1..Len(assets) :
                 assets[a].asset_type = type /\ assets[a].day_number = day}
    IN IF S = {} THEN 0 ELSE Min(S)

\* _execute_plan_modification: select ... eq(asset_type, plan).limit(1)
GetPlanRow ==
    LET S == {a \in 1..Len(assets) : assets[a].asset_type = "plan"}
    IN IF S = {} THEN 0 ELSE Min(S)

\* _version_asset: highest version_number of the asset's rows, 0 if none
LastVersion(a) ==
    LET S == {versions[k].version_number : k \in {j \in 1..Len(versions) : versions[j].asset_id = a}}
    IN IF S = {} THEN 0 ELSE Max(S)

\* a next number that ignores the rows already there
NextVersionNumberStale(a) == 1

\* int(last) + 1; a filter eq(asset_id, None) matches no row
NextVersionNumber(a) == IF a = 0 THEN 1 ELSE LastVersion(a) + 1

\* a _version_asset that inserts nothing
VersionAssetSkipped(a, prev, m, i) == versions

\* _version_asset's insert: the row carries generation_metadata.modification_id
\* (mod); act, the action's index in its batch, is history
VersionAsset(a, prev, m, i) ==
    Append(versions,
           [asset_id |-> a, version_number |-> NextVersionNumber(a),
            content |-> prev, mod |-> m, act |-> i])

\* a status update that blanks the content of the row
SetAssetStatusClearing(a, st) ==
    IF a \in 1..Len(assets)
    THEN [assets EXCEPT ![a].status = st, ![a].meta = {"modification_id"},
                        ![a].content = 0]
    ELSE assets

\* _set_asset_status: update ... eq(id, asset_id); no row when the id matches none
SetAssetStatus(a, st) ==
    IF a \in 1..Len(assets)
    THEN [assets EXCEPT ![a].status = st, ![a].meta = {"modification_id"}]
    ELSE assets

\* _update_asset_content
UpdateAssetContent(a, new, st) ==
    IF a \in 1..Len(assets)
    THEN [assets EXCEPT ![a].content = new, ![a].status = st,
                        ![a].meta = {"modification_id"}]
    ELSE assets

\* history of contents replaced by a different content
Overwrite(a, new) ==
    IF a \in 1..Len(assets) /\ assets[a].content # new
    THEN overwritten \cup {<<a, assets[a].content>>}
    ELSE overwritten

\* _update_modification
UpdateModification(m, affected, prev, new) ==
    [mods EXCEPT ![m].affected_asset_id = affected,
                 ![m].previous_content = prev,
                 ![m].new_content = new,
                 ![m].writes = @ + 1]

\* ------------------------------------------------- execute_modification_plan
\* results.append({"action": i, "success": "error" not in result, "result": result});
\* gen is history: what the action's generator call did
Succeeded(t, gen, last) ==
    [t EXCEPT !.results = Append(@, [action |-> t.i, success |-> TRUE,
                                     error |-> "", result |-> "ok", gen |-> gen]),
              !.pc = "next", !.asset = 0, !.prev = 0, !.last = last]

\* an exception that ends the loop instead of being recorded and passed over
FailedAborts(t, err, gen) ==
    [t EXCEPT !.pc = "done", !.asset = 0, !.prev = 0]

\* except Exception as e: results.append({"action": i, "success": False, "error": str(e)})
Failed(t, err, gen) ==
    [t EXCEPT !.results = Append(@, [action |-> t.i, success |-> FALSE,
                                     error |-> err, result |-> "none", gen |-> gen]),
              !.pc = "next", !.asset = 0, !.prev = 0]

\* an unknown agent passed over without an outcome
UnknownAgentSkipped(t) == [t EXCEPT !.pc = "next"]

\* else: result = {"error": f"Unknown agent: {agent_name}"}
UnknownAgent(t) ==
    [t EXCEPT !.results = Append(@, [action |-> t.i, success |-> FALSE,
                                     error |-> "", result |-> "Unknown agent",
                                     gen |-> "none"]),
              !.pc = "next"]

Running(m) == m \in 1..Len(tasks) /\ loop = m

\* the agent of the next action of the for loop, "none" after the last
NextAgent(m) ==
    IF m \in 1..Len(tasks) /\ tasks[m].i < Len(tasks[m].agents)
    THEN tasks[m].agents[tasks[m].i + 1]
    ELSE "none"

\* target.asset_id values a plan may carry: null, or the id of an asset of the kind
TargetIds(type) == {0} \cup {a \in 1..Len(assets) : assets[a].asset_type = type}

\* _execute_content_modification / _execute_image_modification, up to the
\* second "if not previous_content": the asset id and the previous content
ResolveTarget(type, day, ctx, tgt) ==
    LET cur == GetAsset(type, day)
        fromStore == IF ctx = 0 THEN assets[cur].content ELSE ctx
    IN IF day # 0
       THEN IF cur # 0
            THEN [ok |-> fromStore # 0, asset |-> cur, prev |-> fromStore]
            ELSE [ok |-> FALSE, asset |-> 0, prev |-> 0]
       ELSE [ok |-> ctx # 0, asset |-> tgt, prev |-> ctx]

\* the start of action i: the target is resolved and _version_asset is awaited.
\* With asset_id None the store either takes the row with a null asset_id or
\* rejects the call, which raises.
BeginVersioned(m, r, pcTo) ==
    LET t == [tasks[m] EXCEPT !.i = @ + 1, !.last = NoLast]
    IN IF ~r.ok
       THEN /\ tasks' = [tasks EXCEPT ![m] = Failed(t, "ValueError", "none")]
            /\ versions' = versions
       ELSE \/ /\ versions' = VersionAsset(r.asset, r.prev, m, t.i)
               /\ tasks' = [tasks EXCEPT ![m] =
                      [t EXCEPT !.pc = pcTo, !.asset = r.asset, !.prev = r.prev]]
            \/ /\ r.asset = 0
               /\ versions' = versions
               /\ tasks' = [tasks EXCEPT ![m] = Failed(t, "APIError", "none")]

\* _execute_content_modification, lines 481-501
BeginCopy(m) ==
    /\ Running(m)
    /\ tasks[m].pc = "next"
    /\ NextAgent(m) = "content_agent"
    /\ \E day \in 0..MaxDay, ctx \in 0..MaxContent, tgt \in TargetIds("copy") :
         BeginVersioned(m, ResolveTarget("copy", day, ctx, tgt), "c_generate")
    /\ UNCHANGED <<assets, mods, loop, resp, poll, overwritten>>
    /\ UNCHANGED execVars
    /\ UNCHANGED reqVars

\* _execute_image_modification, lines 524-543
BeginImage(m) ==
    /\ Running(m)
    /\ tasks[m].pc = "next"
    /\ NextAgent(m) = "image_agent"
    /\ \E day \in 0..MaxDay, ctx \in 0..MaxContent, tgt \in TargetIds("image") :
         BeginVersioned(m, ResolveTarget("image", day, ctx, tgt), "i_status")
    /\ UNCHANGED <<assets, mods, loop, resp, poll, overwritten>>
    /\ UNCHANGED execVars
    /\ UNCHANGED reqVars

\* _update_asset_content(asset_id, new, "completed", ...) and the return
UpdateAndReturn(m, new) ==
    /\ assets' = UpdateAssetContent(tasks[m].asset, new, "completed")
    /\ overwritten' = Overwrite(tasks[m].asset, new)
    /\ tasks' = [tasks EXCEPT ![m] =
           Succeeded(@, "returned",
                     IF tasks[m].asset \in 1..Len(assets)
                     THEN [asset |-> tasks[m].asset,
                           before |-> assets[tasks[m].asset].content]
                     ELSE NoLast)]

\* ContentAgent.regenerate_post_copy returns the validated new copy, or
\* old_content when the completion call or the JSON parse raises (out = 0);
\* then _update_asset_content and the return
CopyRegenerate(m) ==
    /\ Running(m)
    /\ tasks[m].pc = "c_generate"
    /\ \E out \in Contents \cup {0} :
         UpdateAndReturn(m, IF out = 0 THEN tasks[m].prev ELSE out)
    /\ UNCHANGED <<versions, mods, loop, resp, poll>>
    /\ UNCHANGED execVars
    /\ UNCHANGED reqVars

\* await self._set_asset_status(asset_id, "generating", ...)
ImageSetGenerating(m) ==
    /\ Running(m)
    /\ tasks[m].pc = "i_status"
    /\ assets' = SetAssetStatus(tasks[m].asset, "generating")
    /\ tasks' = [tasks EXCEPT ![m].pc = "i_generate"]
    /\ UNCHANGED <<versions, mods, loop, resp, poll, overwritten>>
    /\ UNCHANGED execVars
    /\ UNCHANGED reqVars

\* ImageAgent.regenerate_image, which the orchestrator calls and the image
\* agent's module does not define: a new image content, or an exception (0)
regenerate_image == Contents \cup {0}

\* the call of regenerate_image; on return _update_asset_content and the
\* return, on an exception the action fails
ImageRegenerate(m) ==
    /\ Running(m)
    /\ tasks[m].pc = "i_generate"
    /\ \E out \in regenerate_image :
         IF out # 0
         THEN UpdateAndReturn(m, out)
         ELSE /\ tasks' = [tasks EXCEPT ![m] = Failed(@, "GeneratorError", "raised")]
              /\ UNCHANGED <<assets, overwritten>>
    /\ UNCHANGED <<versions, mods, loop, resp, poll>>
    /\ UNCHANGED execVars
    /\ UNCHANGED reqVars

\* _execute_plan_modification, lines 604-632
BeginPlan(m) ==
    /\ Running(m)
    /\ tasks[m].pc = "next"
    /\ NextAgent(m) = "plan_agent"
    /\ \E ctx \in 0..MaxContent, tgt \in TargetIds("plan") :
         LET row == GetPlanRow
         IN IF ctx = 0 /\ row = 0
            THEN /\ tasks' = [tasks EXCEPT ![m].i = @ + 1, ![m].last = NoLast,
                                           ![m].pc = "p_create"]
                 /\ versions' = versions
            ELSE BeginVersioned(m,
                    IF ctx # 0
                    THEN [ok |-> TRUE, asset |-> tgt, prev |-> ctx]
                    ELSE [ok |-> TRUE, asset |-> row, prev |-> assets[row].content],
                    "p_generate")
    /\ UNCHANGED <<assets, mods, loop, resp, poll, overwritten>>
    /\ UNCHANGED execVars
    /\ UNCHANGED reqVars

\* no existing plan: create_execution_plan, _save_asset, _update_modification
PlanCreate(m) ==
    /\ Running(m)
    /\ tasks[m].pc = "p_create"
    /\ \/ \E c \in Contents :
            /\ assets' = Append(assets, Asset("plan", 0, c))
            /\ mods' = UpdateModification(m, Len(assets) + 1, "empty", "plan")
            /\ tasks' = [tasks EXCEPT ![m] = Succeeded(@, "returned", NoLast)]
       \/ /\ tasks' = [tasks EXCEPT ![m] = Failed(@, "GeneratorError", "raised")]
          /\ UNCHANGED <<assets, mods>>
    /\ UNCHANGED <<versions, loop, resp, poll, overwritten>>
    /\ UNCHANGED execVars
    /\ UNCHANGED reqVars

\* PlanAgent.regenerate_plan, which the orchestrator calls and the plan
\* agent's module does not define: a new plan content, or an exception (0)
regenerate_plan == Contents \cup {0}

\* the call of regenerate_plan; on return _update_asset_content,
\* _update_modification and the return, on an exception the action fails
PlanRegenerate(m) ==
    /\ Running(m)
    /\ tasks[m].pc = "p_generate"
    /\ \E out \in regenerate_plan :
         IF out # 0
         THEN /\ UpdateAndReturn(m, out)
              /\ mods' = UpdateModification(m, tasks[m].asset, "plan", "plan")
         ELSE /\ tasks' = [tasks EXCEPT ![m] = Failed(@, "GeneratorError", "raised")]
              /\ UNCHANGED <<assets, overwritten, mods>>
    /\ UNCHANGED <<versions, loop, resp, poll>>
    /\ UNCHANGED execVars
    /\ UNCHANGED reqVars

\* _execute_influencer_modification up to await find_influencers(...), which
\* suspends the task (asyncio.to_thread / httpx)
BeginInfluencer(m) ==
    /\ Running(m)
    /\ tasks[m].pc = "next"
    /\ NextAgent(m) = "influencer_agent"
    /\ tasks' = [tasks EXCEPT ![m].i = @ + 1, ![m].last = NoLast, ![m].pc = "f_wait"]
    /\ loop' = 0
    /\ UNCHANGED <<assets, versions, mods, resp, poll, overwritten>>
    /\ UNCHANGED execVars
    /\ UNCHANGED reqVars

RECURSIVE Influencers(_)
Influencers(k) ==
    IF k = 0 THEN <<>> ELSE Append(Influencers(k - 1), Asset("influencer", 0, 1))

\* find_influencers returns a list (empty on any error); each item is saved,
\* then _update_modification writes the lists
InfluencerResume(m) ==
    /\ m \in 1..Len(tasks)
    /\ loop = 0
    /\ tasks[m].pc = "f_wait"
    /\ \E k \in 0..MaxInfl : assets' = assets \o Influencers(k)
    /\ mods' = UpdateModification(m, 0, "list", "list")
    /\ tasks' = [tasks EXCEPT ![m] = Succeeded(@, "returned", NoLast)]
    /\ loop' = m
    /\ UNCHANGED <<versions, resp, poll, overwritten>>
    /\ UNCHANGED execVars
    /\ UNCHANGED reqVars

BeginUnknown(m) ==
    /\ Running(m)
    /\ tasks[m].pc = "next"
    /\ NextAgent(m) \notin {"content_agent", "image_agent", "influencer_agent",
                            "plan_agent", "none"}
    /\ tasks' = [tasks EXCEPT ![m] =
           UnknownAgent([@ EXCEPT !.i = @ + 1, !.last = NoLast])]
    /\ UNCHANGED <<assets, versions, mods, loop, resp, poll, overwritten>>
    /\ UNCHANGED execVars
    /\ UNCHANGED reqVars

\* a return that leaves the record of the batch as it is
FinishUnrecorded(m) ==
    /\ Running(m)
    /\ tasks[m].pc = "next"
    /\ NextAgent(m) = "none"
    /\ tasks' = [tasks EXCEPT ![m].pc = "done", ![m].last = NoLast]
    /\ resp' = [resp EXCEPT ![m] = IF tasks[m].sync THEN "completed" ELSE @]
    /\ loop' = 0
    /\ UNCHANGED <<assets, versions, mods, poll, overwritten>>
    /\ UNCHANGED execVars
    /\ UNCHANGED reqVars

\* after the loop: the update of canvas_modifications.new_content and the
\* return; in the synchronous case modify_canvas then answers "completed"
Finish(m) ==
    /\ Running(m)
    /\ tasks[m].pc = "next"
    /\ NextAgent(m) = "none"
    /\ mods' = [mods EXCEPT ![m].new_content = "results", ![m].writes = @ + 1]
    /\ tasks' = [tasks EXCEPT ![m].pc = "done", ![m].last = NoLast]
    /\ resp' = [resp EXCEPT ![m] = IF tasks[m].sync THEN "completed" ELSE @]
    /\ loop' = 0
    /\ UNCHANGED <<assets, versions, poll, overwritten>>
    /\ UNCHANGED execVars
    /\ UNCHANGED reqVars

\* ------------------------------------------------------------ routes/canvas.py
\* a routing test that leaves plan_agent out
HasAsyncIgnoresPlan(plan) ==
    \E k \in 1..Len(plan) : plan[k] \in {"image_agent", "influencer_agent"}

\* has_async = any(action.get("agent") in [...] for action in actions)
HasAsync(plan) == \E k \in 1..Len(plan) : plan[k] \in AsyncAgents

\* the tokens of a message: a blank, a word, the word "influencer"
Tokens == {" ", "word", "influencer"}

\* the message texts of a request body
Messages == SeqsUpTo(Tokens, MaxLen)

\* str.strip(): the text without its leading and trailing blanks
RECURSIVE LStrip(_)
LStrip(text) ==
    IF text # <<>> /\ Head(text) = " " THEN LStrip(Tail(text)) ELSE text

RECURSIVE RStrip(_)
RStrip(text) ==
    IF text # <<>> /\ text[Len(text)] = " "
    THEN RStrip(SubSeq(text, 1, Len(text) - 1))
    ELSE text

\* a strip that removes nothing
StripNothing(text) == text

Strip(text) == RStrip(LStrip(text))

\* final_draft = campaign.get("final_draft_json") or campaign.get("draft_json")
FinalDraft ==
    IF campaign.final_draft_json # 0
    THEN campaign.final_draft_json
    ELSE campaign.draft_json

\* the outcome of a modify_canvas request: the HTTP status, the error detail,
\* the record created, and (history) what the planner returned ("none": not
\* invoked), whether the message was blank, whether the campaign had a draft
Http(code, detail, planner, mod, blank, draft) ==
    [code |-> code, detail |-> detail, planner |-> planner, mod |-> mod,
     blank |-> blank, draft |-> draft]

NoHttp == Http(0, "none", "none", 0, FALSE, FALSE)

NewTask(plan, sync) ==
    [agents |-> plan, i |-> 0, pc |-> IF sync THEN "next" ELSE "queued",
     asset |-> 0, prev |-> 0, results |-> <<>>, sync |-> sync, last |-> NoLast]

RECURSIVE PlannedActions(_)
PlannedActions(m) ==
    IF m = 0 THEN 0 ELSE Len(tasks[m].agents) + PlannedActions(m - 1)

\* whether every character of the message is a blank (history of a request)
Blank(message) == \A k \in 1..Len(message) : message[k] = " "

\* what RegenerationAgent.analyze_modification returns: a request for
\* clarification with no action, or a validated plan
Analyses ==
    {[needs_clarification |-> TRUE, actions |-> <<>>]}
        \cup {[needs_clarification |-> FALSE, actions |-> p] : p \in Plans}

\* what the planner returned, as the request's history keeps it
Returned(analysis) == IF analysis.needs_clarification THEN "clarify" ELSE "plan"

\* a check that never asks for clarification
NeedsClarificationIgnored(plan) == FALSE

\* if plan.get("needs_clarification")
NeedsClarification(plan) == plan.needs_clarification

\* the canvas_modifications insert, then the routing: the batch is run
\* inside the request, or added to the background tasks
Dispatch(plan) ==
    LET sync == ~HasAsync(plan)
        m == Len(mods) + 1
    IN /\ Len(plan) + PlannedActions(Len(tasks)) <= MaxActions
       /\ mods' = Append(mods, [new_content |-> "null", previous_content |-> "null",
                                affected_asset_id |-> 0, writes |-> 0])
       /\ tasks' = Append(tasks, NewTask(plan, sync))
       /\ resp' = Append(resp, IF sync THEN "pending" ELSE "accepted")
       /\ loop' = IF sync THEN m ELSE 0

\* modify_canvas for a message that is not blank, a campaign with a draft and
\* a plan with needs_clarification = false: the canvas_modifications insert,
\* then the routing
ModifyCanvas ==
    /\ loop = 0
    /\ {message \in Messages : Strip(message) # <<>>} # {}
    /\ FinalDraft # 0
    /\ \E plan \in Plans : Dispatch(plan)
    /\ http' = Http(200, "none", "plan", Len(mods) + 1, FALSE, TRUE)
    /\ UNCHANGED <<assets, versions, poll, overwritten>>
    /\ UNCHANGED execVars
    /\ UNCHANGED <<campaign, call>>

\* raise HTTPException(status_code=400, ...): nothing is written
Reject(detail, planner, message) ==
    /\ http' = Http(400, detail, planner, 0, Blank(message), FinalDraft # 0)
    /\ UNCHANGED <<mods, tasks, resp, loop>>

\* modify_canvas, the whole handler: the message check, the draft check, the
\* planner, the clarification check, then the insert and the routing
ModifyCanvasRequest ==
    /\ loop = 0
    /\ \E message \in Messages :
         IF Strip(message) = <<>>
         THEN Reject("Message is required", "none", message)
         ELSE IF FinalDraft = 0
         THEN Reject("No campaign draft available", "none", message)
         ELSE \E analysis \in Analyses :
                IF NeedsClarification(analysis)
                THEN Reject("clarify_message", Returned(analysis), message)
                ELSE /\ Dispatch(analysis.actions)
                     /\ http' = Http(200, "none", Returned(analysis), Len(mods) + 1,
                                     Blank(message), FinalDraft # 0)
    /\ UNCHANGED <<assets, versions, poll, overwritten>>
    /\ UNCHANGED execVars
    /\ UNCHANGED <<campaign, call>>

\* the background task starts once the response is sent and the loop is free
StartBackground(m) ==
    /\ m \in 1..Len(tasks)
    /\ loop = 0
    /\ tasks[m].pc = "queued"
    /\ tasks' = [tasks EXCEPT ![m].pc = "next"]
    /\ loop' = m
    /\ UNCHANGED <<assets, versions, mods, resp, poll, overwritten>>
    /\ UNCHANGED execVars
    /\ UNCHANGED reqVars

\* a completion test on the other content field
IsDoneByPrevious(mod) == mod.previous_content # "null"

\* is_done = mod.get("new_content") is not None
IsDone(mod) == mod.new_content # "null"

\* status_label = "completed" if is_done else "processing"
StatusLabel(mod) == IF IsDone(mod) THEN "completed" ELSE "processing"

\* get_modification_status; seen is history, the record's new_content as read
GetModificationStatus(m) ==
    /\ m \in 1..Len(mods)
    /\ loop = 0
    /\ poll' = [mod |-> m,
                status |-> StatusLabel(mods[m]),
                previous_content |-> IF IsDone(mods[m]) THEN mods[m].previous_content ELSE "null",
                new_content |-> IF IsDone(mods[m]) THEN mods[m].new_content ELSE "null",
                seen |-> mods[m].new_content]
    /\ UNCHANGED <<assets, versions, mods, tasks, loop, resp, overwritten>>
    /\ UNCHANGED execVars
    /\ UNCHANGED reqVars

\* ------------------------------------------------------------ execute_campaign
\* the execute_campaign coroutine: n = len(posting_schedule), day = days the
\* copy loop has gone through, copy_assets = day numbers of the saved copy,
\* img = copy assets the image loop has gone through; calls (the Phase 2
\* generators invoked) and raised (those whose generator raised) are history
ExecTask(n, pc) ==
    [pc |-> pc, n |-> n, day |-> 0, copy_assets |-> <<>>,
     img |-> 0, image_assets |-> 0, influencer_assets |-> 0, plan_asset |-> 0,
     images |-> "idle", influencers |-> "idle", plan |-> "idle",
     calls |-> {}, raised |-> {}, ret |-> "none"]

ExecIdle == ExecTask(0, "done")

\* _send_progress_message: a system message with event execution_progress
Progress(text, count) == Append(progress, [text |-> text, count |-> count])

\* status "executing" and the first progress message
ExecStart ==
    /\ exec.pc = "start"
    /\ status' = "executing"
    /\ progress' = Progress("starting", 0)
    /\ exec' = [exec EXCEPT !.pc = "copy"]
    /\ UNCHANGED modVars
    /\ UNCHANGED reqVars

\* _generate_all_copy, one day of the loop: generate_post_copy and _save_asset,
\* or an exception, which the loop catches
GenerateCopy ==
    /\ exec.pc = "copy"
    /\ exec.day < exec.n
    /\ \/ \E c \in Contents :
            /\ assets' = Append(assets, Asset("copy", exec.day + 1, c))
            /\ exec' = [exec EXCEPT !.day = @ + 1,
                                    !.copy_assets = Append(@, exec.day + 1)]
       \/ /\ assets' = assets
          /\ exec' = [exec EXCEPT !.day = @ + 1]
    /\ UNCHANGED <<versions, mods, tasks, loop, resp, poll, overwritten>>
    /\ UNCHANGED reqVars
    /\ UNCHANGED <<status, progress>>

\* a gate that lets an empty Phase 1 through
NoCopyIgnored(copy_assets) == FALSE

\* if not copy_assets: raise Exception(...)
NoCopy(copy_assets) == copy_assets = <<>>

\* the end of Phase 1: the raise, or the Phase 2 progress message and the gather
PhaseGate ==
    /\ exec.pc = "copy"
    /\ exec.day = exec.n
    /\ IF NoCopy(exec.copy_assets)
       THEN /\ exec' = [exec EXCEPT !.pc = "failing"]
            /\ progress' = progress
       ELSE /\ exec' = [exec EXCEPT !.pc = "gather", !.images = "run",
                                    !.influencers = "run", !.plan = "run"]
            /\ progress' = Progress("phase2", 0)
    /\ UNCHANGED modVars
    /\ UNCHANGED reqVars
    /\ UNCHANGED status

\* an image loop that walks the schedule days
ImageDayOfSchedule(copy_assets, i) == i

\* day_number = copy_asset["day_number"] of the i-th copy asset of the run
ImageDay(copy_assets, i) == copy_assets[i]

\* _generate_all_images, one copy asset of the loop: generate_image and
\* _save_asset, or an exception, which the loop catches
GenerateImage ==
    /\ exec.pc = "gather"
    /\ exec.images = "run"
    /\ exec.img < Len(exec.copy_assets)
    /\ \/ \E c \in Contents :
            /\ assets' = Append(assets, Asset("image", ImageDay(exec.copy_assets, exec.img + 1), c))
            /\ exec' = [exec EXCEPT !.img = @ + 1, !.image_assets = @ + 1,
                                    !.calls = @ \cup {"image"}]
       \/ /\ assets' = assets
          /\ exec' = [exec EXCEPT !.img = @ + 1, !.calls = @ \cup {"image"},
                                  !.raised = @ \cup {"image"}]
    /\ UNCHANGED <<versions, mods, tasks, loop, resp, poll, overwritten>>
    /\ UNCHANGED reqVars
    /\ UNCHANGED <<status, progress>>

\* return image_assets
ImagesReturn ==
    /\ exec.pc = "gather"
    /\ exec.images = "run"
    /\ exec.img = Len(exec.copy_assets)
    /\ exec' = [exec EXCEPT !.images = "done"]
    /\ UNCHANGED modVars
    /\ UNCHANGED reqVars
    /\ UNCHANGED <<status, progress>>

\* _generate_influencers: find_influencers returns a list, empty on any error
\* inside it; every item is saved
GenerateInfluencers ==
    /\ exec.pc = "gather"
    /\ exec.influencers = "run"
    /\ \E k \in 0..MaxInfl :
         /\ assets' = assets \o Influencers(k)
         /\ exec' = [exec EXCEPT !.influencers = "done", !.influencer_assets = k,
                                 !.calls = @ \cup {"influencer"}]
    /\ UNCHANGED <<versions, mods, tasks, loop, resp, poll, overwritten>>
    /\ UNCHANGED reqVars
    /\ UNCHANGED <<status, progress>>

\* _generate_plan: create_execution_plan and _save_asset, or an exception,
\* caught, and None
GeneratePlan ==
    /\ exec.pc = "gather"
    /\ exec.plan = "run"
    /\ \/ \E c \in Contents :
            /\ assets' = Append(assets, Asset("plan", 0, c))
            /\ exec' = [exec EXCEPT !.plan = "done", !.plan_asset = Len(assets) + 1,
                                    !.calls = @ \cup {"plan"}]
       \/ /\ assets' = assets
          /\ exec' = [exec EXCEPT !.plan = "done", !.calls = @ \cup {"plan"},
                                  !.raised = @ \cup {"plan"}]
    /\ UNCHANGED <<versions, mods, tasks, loop, resp, poll, overwritten>>
    /\ UNCHANGED reqVars
    /\ UNCHANGED <<status, progress>>

\* the gather is over: _update_campaign_status("completed")
MarkCompleted ==
    /\ exec.pc = "gather"
    /\ exec.images = "done" /\ exec.influencers = "done" /\ exec.plan = "done"
    /\ status' = "completed"
    /\ exec' = [exec EXCEPT !.pc = "report"]
    /\ UNCHANGED modVars
    /\ UNCHANGED reqVars
    /\ UNCHANGED progress

\* a count of the components attempted
SuccessCountAttempted(image_assets, influencer_assets, plan_asset) == 4

\* success_count = sum([1, 1 if image_assets else 0, 1 if influencer_assets
\* else 0, 1 if plan_asset else 0])
SuccessCount(image_assets, influencer_assets, plan_asset) ==
    1 + (IF image_assets # 0 THEN 1 ELSE 0)
      + (IF influencer_assets # 0 THEN 1 ELSE 0)
      + (IF plan_asset # 0 THEN 1 ELSE 0)

\* the completion message and return True
ReportCompleted ==
    /\ exec.pc = "report"
    /\ progress' = Progress("complete",
           SuccessCount(exec.image_assets, exec.influencer_assets, exec.plan_asset))
    /\ exec' = [exec EXCEPT !.pc = "done", !.ret = "True"]
    /\ UNCHANGED modVars
    /\ UNCHANGED reqVars
    /\ UNCHANGED status

\* create_message re-raises what the insert of the completion message
\* raises; the await is inside the try of execute_campaign, so the run goes
\* on in its except branch
CompletionMessageRaises ==
    /\ exec.pc = "report"
    /\ exec' = [exec EXCEPT !.pc = "failing"]
    /\ UNCHANGED modVars
    /\ UNCHANGED reqVars
    /\ UNCHANGED <<status, progress>>

\* except Exception: _update_campaign_status("failed")
MarkFailed ==
    /\ exec.pc = "failing"
    /\ status' = "failed"
    /\ exec' = [exec EXCEPT !.pc = "failreport"]
    /\ UNCHANGED modVars
    /\ UNCHANGED reqVars
    /\ UNCHANGED progress

\* a failure branch that returns False without a message
ReportFailedSilent ==
    /\ exec.pc = "failreport"
    /\ exec' = [exec EXCEPT !.pc = "done", !.ret = "False"]
    /\ UNCHANGED modVars
    /\ UNCHANGED reqVars
    /\ UNCHANGED <<status, progress>>

\* the failure message and return False
ReportFailed ==
    /\ exec.pc = "failreport"
    /\ progress' = Progress("failed", 0)
    /\ exec' = [exec EXCEPT !.pc = "done", !.ret = "False"]
    /\ UNCHANGED modVars
    /\ UNCHANGED reqVars
    /\ UNCHANGED status

\* ------------------------------------------------------------ routes/chat.py
\* the drafts DraftAgent returns: _validate_draft leaves none of them empty
Drafts == 1..MaxContent

\* len(final_draft["posting_schedule"]): draft d schedules d - 1 days, which
\* may be none
PostingSchedule(d) == Min({d - 1, MaxDay})

\* send_message, once the draft agent has returned draft d: draft_json and
\* the status are written, whatever the status was
SendMessage ==
    /\ \E d \in Drafts :
         /\ campaign' = [campaign EXCEPT !.draft_json = d]
         /\ status' = IF d # 0 THEN "draft_ready" ELSE "drafting"
    /\ UNCHANGED modVars
    /\ UNCHANGED <<progress, exec, http, call>>

\* confirm_execute for a campaign with a draft: final_draft_json and status
\* "executing" are written, whatever the status was, and execute_campaign is
\* scheduled.  Here it is called while no execute_campaign task is running.
ConfirmExecute ==
    /\ exec.pc = "done"
    /\ campaign.runs < MaxRuns
    /\ campaign.draft_json # 0
    /\ campaign' = [campaign EXCEPT !.final_draft_json = campaign.draft_json,
                                    !.runs = @ + 1]
    /\ status' = "executing"
    /\ exec' = ExecTask(PostingSchedule(campaign.draft_json), "start")
    /\ UNCHANGED modVars
    /\ UNCHANGED <<progress, http, call>>

\* ------------------------------------------------------------ specification
\* the assets of a campaign whose execution completed with copy and image
\* for day 1 only: the copy of the other days, the influencer search and the
\* plan failed
InitAssets == <<Asset("copy", 1, 1), Asset("image", 1, 1)>>

Init ==
    /\ assets = InitAssets
    /\ versions = <<>>
    /\ mods = <<>>
    /\ tasks = <<>>
    /\ loop = 0
    /\ resp = <<>>
    /\ poll = NoPoll
    /\ overwritten = {}
    /\ status = "completed"
    /\ progress = <<>>
    /\ exec = ExecIdle
    /\ campaign = Campaign(1, 1, 1)
    /\ http = NoHttp
    /\ call = NoCall

TaskStep(m) ==
    \/ StartBackground(m)
    \/ BeginCopy(m)
    \/ CopyRegenerate(m)
    \/ BeginImage(m)
    \/ ImageSetGenerating(m)
    \/ ImageRegenerate(m)
    \/ BeginInfluencer(m)
    \/ InfluencerResume(m)
    \/ BeginPlan(m)
    \/ PlanCreate(m)
    \/ PlanRegenerate(m)
    \/ BeginUnknown(m)
    \/ Finish(m)

Next ==
    \/ ModifyCanvas
    \/ \E m \in 1..MaxActions : TaskStep(m)

Spec == Init /\ [][Next]_vars

\* one modification request and its pollers
NextPoll ==
    \/ Len(mods) = 0 /\ ModifyCanvas
    \/ TaskStep(1)
    \/ GetModificationStatus(1)

SpecPoll == Init /\ [][NextPoll]_vars

\* execute_campaign as confirm_execute schedules it: status "executing", no
\* asset yet, a posting schedule of 0..MaxDay days
InitExec ==
    /\ assets = <<>>
    /\ versions = <<>>
    /\ mods = <<>>
    /\ tasks = <<>>
    /\ loop = 0
    /\ resp = <<>>
    /\ poll = NoPoll
    /\ overwritten = {}
    /\ status = "executing"
    /\ progress = <<>>
    /\ \E n \in 0..MaxDay : exec = ExecTask(n, "start")
    /\ campaign = Campaign(1, 1, 1)
    /\ http = NoHttp
    /\ call = NoCall

NextExec ==
    \/ ExecStart
    \/ GenerateCopy
    \/ PhaseGate
    \/ GenerateImage
    \/ ImagesReturn
    \/ GenerateInfluencers
    \/ GeneratePlan
    \/ MarkCompleted
    \/ ReportCompleted
    \/ MarkFailed
    \/ ReportFailed

SpecExec == InitExec /\ [][NextExec]_vars

\* execute_campaign is a task of the event loop: a step that is ready is
\* eventually run
SpecExecLive == InitExec /\ [][NextExec]_vars /\ WF_vars(NextExec)

\* execute_campaign when the insert of the completion message can fail
NextExecMessage ==
    \/ NextExec
    \/ CompletionMessageRaises

SpecExecMessage == InitExec /\ [][NextExecMessage]_vars

\* a campaign from create_campaign on: drafting, no draft, no asset
InitCampaign ==
    /\ assets = <<>>
    /\ versions = <<>>
    /\ mods = <<>>
    /\ tasks = <<>>
    /\ loop = 0
    /\ resp = <<>>
    /\ poll = NoPoll
    /\ overwritten = {}
    /\ status = "drafting"
    /\ progress = <<>>
    /\ exec = ExecIdle
    /\ campaign = Campaign(0, 0, 0)
    /\ http = NoHttp
    /\ call = NoCall

NextCampaign ==
    \/ SendMessage
    \/ ConfirmExecute
    \/ NextExec

SpecCampaign == InitCampaign /\ [][NextCampaign]_vars

\* modify_canvas requests of every kind, for a campaign without a draft and
\* for an executed campaign; one batch of MaxBatch actions at most is
\* dispatched
InitRequest ==
    /\ \E c \in {Campaign(0, 0, 0), Campaign(1, 1, 1)} :
         /\ campaign = c
         /\ assets = IF c.final_draft_json = 0 THEN <<>> ELSE InitAssets
         /\ status = IF c.final_draft_json = 0 THEN "drafting" ELSE "completed"
    /\ versions = <<>>
    /\ mods = <<>>
    /\ tasks = <<>>
    /\ loop = 0
    /\ resp = <<>>
    /\ poll = NoPoll
    /\ overwritten = {}
    /\ progress = <<>>
    /\ exec = ExecIdle
    /\ http = NoHttp
    /\ call = NoCall

NextRequest ==
    \/ /\ ModifyCanvasRequest
       /\ Len(mods') <= 1
       /\ \A m \in 1..Len(tasks') : Len(tasks'[m].agents) <= MaxBatch
    \/ TaskStep(1)

SpecRequest == InitRequest /\ [][NextRequest]_vars

\* the same requests; the event loop runs the task of the batch whenever it
\* is ready, and every generator call returns or raises
SpecRequestLive == InitRequest /\ [][NextRequest]_vars /\ WF_vars(TaskStep(1))

\* ------------------------------------------- agents/content_agent.py
\* the keys of a post copy
CopyFields == {"caption", "description", "hashtags", "platform"}

\* the keys an action's fields_to_modify can name
TextFields == {"caption", "description", "hashtags"}

\* a post copy: each key is absent, or holds a value
Copy(caption, description, hashtags, platform) ==
    [caption |-> caption, description |-> description, hashtags |-> hashtags,
     platform |-> platform]

\* the copy of an asset: the platform is the draft's first platform; a key is
\* missing when the planner supplied a partial previous content; an empty
\* previous content never reaches the generator
OldContents ==
    {Copy(c, d, h, p) : c \in {"absent", "old"}, d \in {"absent", "old"},
                        h \in {"absent", "old"}, p \in {"absent", "primary"}}
        \ {Copy("absent", "absent", "absent", "absent")}

\* what agent.run and _parse_json_response give: an exception, or an object
\* whose keys are absent, empty, the previous value or a new value; "bare"
\* is a list of tags without '#'
Responses ==
    {[ok |-> FALSE, copy |-> Copy("absent", "absent", "absent", "absent")]}
        \cup {[ok |-> TRUE, copy |-> Copy(c, d, h, p)] :
                 c \in {"absent", "empty", "old", "new"},
                 d \in {"absent", "empty", "old", "new"},
                 h \in {"absent", "empty", "old", "new", "bare"},
                 p \in {"absent", "new"}}

\* _validate_copy: a required key that is missing or falsy gets its default;
\* every tag gets a leading '#'
ValidateCopy(copy_data) ==
    [f \in CopyFields |->
        IF copy_data[f] \in {"absent", "empty"}
        THEN IF f = "platform" THEN "primary" ELSE "default"
        ELSE IF f = "hashtags" /\ copy_data[f] = "bare" THEN "prefixed"
        ELSE copy_data[f]]

\* regenerate_post_copy: fields_to_modify only chooses the sentence of the
\* prompt; the platform is overwritten, a key the response lacks is taken
\* from old_content, the result is validated; any exception returns
\* old_content
RegeneratePostCopyOf(old_content, response, fields_to_modify) ==
    IF ~response.ok THEN old_content
    ELSE LET new_copy == [response.copy EXCEPT !.platform = "primary"]
             filled == [f \in CopyFields |->
                           IF new_copy[f] = "absent" THEN old_content[f]
                           ELSE new_copy[f]]
         IN ValidateCopy(filled)

\* the entry execute_modification_plan appends for an action
Outcome(success, error) == [success |-> success, error |-> error]

\* a call of regenerate_post_copy by _execute_content_modification: its
\* arguments, its return value, and the entry recorded for the action
CopyCall(old_content, response, fields_to_modify, done, result) ==
    [fn |-> "regenerate_post_copy", old_content |-> old_content,
     response |-> response, fields_to_modify |-> fields_to_modify,
     done |-> done, result |-> result, recorded |-> FALSE,
     outcome |-> Outcome(FALSE, "")]

RegeneratePostCopy ==
    /\ call.fn = "regenerate_post_copy"
    /\ ~call.done
    /\ call' = [call EXCEPT
                  !.done = TRUE,
                  !.result = RegeneratePostCopyOf(call.old_content, call.response,
                                                  call.fields_to_modify)]
    /\ UNCHANGED modVars
    /\ UNCHANGED execVars
    /\ UNCHANGED <<campaign, http>>

\* regenerate_post_copy has returned: _execute_content_modification writes
\* the content and returns a result without "error";
\* execute_modification_plan appends success = "error" not in result
RecordCopyOutcome ==
    /\ call.fn = "regenerate_post_copy"
    /\ call.done
    /\ ~call.recorded
    /\ call' = [call EXCEPT !.recorded = TRUE, !.outcome = Outcome(TRUE, "")]
    /\ UNCHANGED modVars
    /\ UNCHANGED execVars
    /\ UNCHANGED <<campaign, http>>

\* one call of regenerate_post_copy for every previous content, response and
\* fields_to_modify
InitCopy ==
    /\ assets = InitAssets
    /\ versions = <<>>
    /\ mods = <<>>
    /\ tasks = <<>>
    /\ loop = 0
    /\ resp = <<>>
    /\ poll = NoPoll
    /\ overwritten = {}
    /\ status = "completed"
    /\ progress = <<>>
    /\ exec = ExecIdle
    /\ campaign = Campaign(1, 1, 1)
    /\ http = NoHttp
    /\ \E old_content \in OldContents, response \in Responses,
          fields_to_modify \in SUBSET TextFields :
         call = CopyCall(old_content, response, fields_to_modify, FALSE, old_content)

NextCopy ==
    \/ RegeneratePostCopy
    \/ RecordCopyOutcome

SpecCopy == InitCopy /\ [][NextCopy]_vars

\* ----------------------------------- agents/modification_classifier.py
\* the words of a message given to a planner: blanks, a word without
\* meaning for the classifier, the influencer keyword, a verb of the verb
\* pattern, a copy field, the image keyword, the plan keyword, "all", a
\* day number, "and"
Words == {" ", "word", "influencer", "change", "caption", "image", "plan",
          "all", "day1", "and"}

Phrases == SeqsUpTo(Words, MaxLen)

\* the keys every action of a planner output must carry: asset_type or
\* agent, action or operation, target, user_instruction or instruction
RequiredFields == {"asset_type", "action", "target", "user_instruction"}

\* the keys of a target object
TargetKeys == {"day_numbers", "apply_to", "match_text"}

\* an action of a planner output; day 0 is day_numbers = null, missing holds
\* the required keys the action lacks, target the keys of its target object,
\* user_instruction the words of its instruction
PlanAction(asset_type, action, day, apply_to, fields, mode_hint, missing, target, user_instruction) ==
    [asset_type |-> asset_type, action |-> action, day |-> day,
     apply_to |-> apply_to, fields |-> fields, mode_hint |-> mode_hint,
     missing |-> missing, target |-> target,
     user_instruction |-> user_instruction]

\* the action lists a language model can put in its JSON: none, a copy
\* action of day 1, a copy action without a day, an image action for all
\* days, an action on a kind that does not exist, an action without target
LLMActions ==
    {<<>>,
     <<PlanAction("copy", "modify_content", 1, "specific", {"caption"}, "absent", {},
                  TargetKeys, <<"word">>)>>,
     <<PlanAction("copy", "modify_content", 0, "none", {"caption"}, "absent", {},
                  TargetKeys, <<"word">>)>>,
     <<PlanAction("image", "change_style", 0, "all", {"image"}, "absent", {},
                  TargetKeys, <<"word">>)>>,
     <<PlanAction("video", "regenerate", 0, "all", {}, "absent", {},
                  TargetKeys, <<"word">>)>>,
     <<PlanAction("copy", "modify_content", 1, "specific", {}, "absent", {"target"},
                  {}, <<"word">>)>>}

\* what the language-model call gives: it raises, it returns JSON that is not
\* an object with an action list, or it returns an object whose
\* needs_clarification and clarify_message keys can be missing
LLMOutcomes ==
    {[kind |-> k, needs_clarification |-> "absent", clarify_message |-> "absent",
      actions |-> <<>>] : k \in {"raise", "not_dict"}}
        \cup {[kind |-> "dict", needs_clarification |-> nc, clarify_message |-> cm,
               actions |-> acts] :
                 nc \in {"absent", "true", "false"},
                 cm \in {"absent", "text"},
                 acts \in LLMActions}

\* a planner's return value, with (history) whether the language model was
\* called and which path produced the value
Classified(needs_clarification, clarify_message, actions, llm_called, path) ==
    [needs_clarification |-> needs_clarification,
     clarify_message |-> clarify_message, actions |-> actions,
     llm_called |-> llm_called, path |-> path]

\* a keyword test that looks at the first word only
HasInfluencerKeywordFirst(message) ==
    Len(message) > 0 /\ message[1] = "influencer"

\* any(k in text_lower for k in influencer_keywords)
HasInfluencerKeyword(message) ==
    \E k \in 1..Len(message) : message[k] = "influencer"

\* re.split on "and": the parts of a text
RECURSIVE SplitParts(_)
SplitParts(text) ==
    IF \A k \in 1..Len(text) : text[k] # "and" THEN <<text>>
    ELSE LET i == CHOOSE k \in 1..Len(text) :
                     text[k] = "and" /\ \A j \in 1..(k - 1) : text[j] # "and"
         IN <<SubSeq(text, 1, i - 1)>> \o SplitParts(SubSeq(text, i + 1, Len(text)))

\* _extract_day: the number of the first day word, None (0) without one
ExtractDay(p) == IF \E k \in 1..Len(p) : p[k] = "day1" THEN 1 ELSE 0

\* _normalize_asset
NormalizeAsset(target) ==
    IF \E k \in 1..Len(target) : target[k] = "image" THEN "image"
    ELSE IF \E k \in 1..Len(target) : target[k] = "caption" THEN "copy"
    ELSE IF \E k \in 1..Len(target) : target[k] = "plan" THEN "plan"
    ELSE IF \E k \in 1..Len(target) : target[k] = "influencer" THEN "influencer"
    ELSE "unknown"

\* the fields list of a part that matches the verb pattern
FieldsOf(p) ==
    IF \E k \in 1..Len(p) : p[k] = "all" THEN {}
    ELSE {f \in {"caption", "image"} : \E k \in 1..Len(p) : p[k] = f}

\* whether the verb pattern matches the part: a verb followed by a target
MatchesVerb(p) == \E i \in 1..(Len(p) - 1) : p[i] = "change"

\* m.group("instr"): the target group takes letters, digits, hyphens and
\* blanks greedily, so for a part made of words it reaches the end of the
\* part and the instruction group matches nothing
Instr(p) == <<>>

\* "user_instruction": instr or p
UserInstruction(instr, p) == IF instr # <<>> THEN instr ELSE p

\* a guess that looks for the image keyword before the plan keyword
AssetGuessImageFirst(p) ==
    IF \E k \in 1..Len(p) : p[k] = "image" THEN "image"
    ELSE IF \E k \in 1..Len(p) : p[k] = "plan" THEN "plan"
    ELSE "copy"

\* asset_guess = "plan" if re.search(plan words) else ("image" if
\* re.search(image words) else "copy")
AssetGuess(p) ==
    IF \E k \in 1..Len(p) : p[k] = "plan" THEN "plan"
    ELSE IF \E k \in 1..Len(p) : p[k] = "image" THEN "image"
    ELSE "copy"

\* the action of one stripped, non-empty part: the verb pattern when a verb
\* is followed by a target, the fallback guess otherwise; neither looks at
\* "all", and both set apply_to from the day alone
ClassifyPart(p) ==
    LET day == ExtractDay(p)
        apply_to == IF day # 0 THEN "specific" ELSE "none"
    IN IF MatchesVerb(p)
       THEN LET i == CHOOSE k \in 1..(Len(p) - 1) :
                         p[k] = "change" /\ \A j \in 1..(k - 1) : p[j] # "change"
                asset == NormalizeAsset(SubSeq(p, i + 1, Len(p)))
            IN PlanAction(asset, "modify_content", day, apply_to, FieldsOf(p),
                          IF asset \in {"image", "plan", "influencer"}
                          THEN "async" ELSE "sync", {},
                          TargetKeys, UserInstruction(Instr(p), p))
       ELSE PlanAction(AssetGuess(p), "modify_content", day, apply_to, {},
                       "absent", {}, TargetKeys, p)

\* the parts of a message the loop does not skip: p = part.strip(), non-empty
StrippedParts(message) ==
    LET parts == SplitParts(Strip(message))
    IN SelectSeq([k \in 1..Len(parts) |-> Strip(parts[k])], LAMBDA p : p # <<>>)

RECURSIVE ClassifyParts(_)
ClassifyParts(parts) ==
    IF parts = <<>> THEN <<>>
    ELSE LET p == Strip(Head(parts))
         IN (IF p = <<>> THEN <<>> ELSE <<ClassifyPart(p)>>)
                \o ClassifyParts(Tail(parts))

\* _classify_with_regex: an empty text asks for clarification; every
\* non-empty part gives an action; no action asks for clarification
ClassifyWithRegex(message, llm_called) ==
    LET text == Strip(message)
        actions == ClassifyParts(SplitParts(text))
    IN IF text = <<>> \/ actions = <<>>
       THEN Classified(TRUE, "text", <<>>, llm_called, "regex")
       ELSE Classified(FALSE, "none", actions, llm_called, "regex")

\* _validate_actions: the payload is an object with an action list whose
\* actions carry the four required keys
ValidateActions(payload) ==
    /\ payload.kind = "dict"
    /\ \A k \in 1..Len(payload.actions) :
          payload.actions[k].missing \cap RequiredFields = {}

\* a.setdefault("mode_hint", ...)
WithModeHint(actions) ==
    [k \in 1..Len(actions) |->
        IF actions[k].mode_hint # "absent" THEN actions[k]
        ELSE [actions[k] EXCEPT !.mode_hint =
                 IF actions[k].asset_type \in {"image", "plan", "influencer"}
                 THEN "async" ELSE "sync"]]

\* classify_modification: the keyword shortcut, then generate_json for every
\* other message; a payload _validate_actions accepts is returned with
\* needs_clarification defaulting to false and clarify_message to None,
\* anything else falls back to the regular expressions
ClassifyModificationOf(message, llm) ==
    IF HasInfluencerKeyword(message)
    THEN Classified(FALSE, "none",
                    <<PlanAction("influencer", "regenerate", 0, "all", {}, "async", {},
                                 TargetKeys, message)>>,
                    FALSE, "keyword")
    ELSE IF llm.kind # "raise" /\ ValidateActions(llm)
    THEN Classified(llm.needs_clarification = "true",
                    IF llm.clarify_message = "absent" THEN "none" ELSE llm.clarify_message,
                    WithModeHint(llm.actions), TRUE, "llm")
    ELSE ClassifyWithRegex(message, TRUE)

ClassifyCall(fn, message, llm, done, result) ==
    [fn |-> fn, message |-> message, llm |-> llm, done |-> done, result |-> result]

ClassifyModification ==
    /\ call.fn = "classify_modification"
    /\ ~call.done
    /\ call' = [call EXCEPT
                  !.done = TRUE,
                  !.result = ClassifyModificationOf(call.message, call.llm)]
    /\ UNCHANGED modVars
    /\ UNCHANGED execVars
    /\ UNCHANGED <<campaign, http>>

\* ------------------------------------------ agents/regeneration_agent.py
\* _validate_plan: an object with needs_clarification; a clarification has a
\* message; a plan has a non-empty action list whose actions carry the four
\* required keys
ValidatePlan(plan) ==
    /\ plan.kind = "dict"
    /\ plan.needs_clarification # "absent"
    /\ plan.needs_clarification = "true" => plan.clarify_message # "absent"
    /\ plan.needs_clarification = "false" =>
          /\ Len(plan.actions) > 0
          /\ \A k \in 1..Len(plan.actions) :
                plan.actions[k].missing \cap RequiredFields = {}

\* analyze_modification: agent.run, _parse_json_response, _validate_plan; a
\* plan that passes is returned as it is; an invalid plan and any exception
\* return a request for clarification
AnalyzeModificationOf(message, llm) ==
    IF llm.kind # "raise" /\ ValidatePlan(llm)
    THEN Classified(llm.needs_clarification = "true",
                    IF llm.clarify_message = "absent" THEN "none" ELSE llm.clarify_message,
                    llm.actions, TRUE, "llm")
    ELSE Classified(TRUE, "text", <<>>, TRUE, "clarify")

AnalyzeModification ==
    /\ call.fn = "analyze_modification"
    /\ ~call.done
    /\ call' = [call EXCEPT
                  !.done = TRUE,
                  !.result = AnalyzeModificationOf(call.message, call.llm)]
    /\ UNCHANGED modVars
    /\ UNCHANGED execVars
    /\ UNCHANGED <<campaign, http>>

\* one call of classify_modification and one of analyze_modification for
\* every message and every outcome of the language-model call
InitClassify ==
    /\ assets = InitAssets
    /\ versions = <<>>
    /\ mods = <<>>
    /\ tasks = <<>>
    /\ loop = 0
    /\ resp = <<>>
    /\ poll = NoPoll
    /\ overwritten = {}
    /\ status = "completed"
    /\ progress = <<>>
    /\ exec = ExecIdle
    /\ campaign = Campaign(1, 1, 1)
    /\ http = NoHttp
    /\ \E fn \in {"classify_modification", "analyze_modification"},
          message \in Phrases, llm \in LLMOutcomes :
         call = ClassifyCall(fn, message, llm, FALSE,
                             Classified(FALSE, "none", <<>>, FALSE, "none"))

NextClassify ==
    \/ ClassifyModification
    \/ AnalyzeModification

SpecClassify == InitClassify /\ [][NextClassify]_vars

\* --------------------------------------------- agents/draft_agent.py
\* a color_scheme value: a missing key, a list, a string or a number, with
\* its length
Colors(kind, n) == [kind |-> kind, n |-> n]

ColorSchemes ==
    {Colors("absent", 0), Colors("number", 1)}
        \cup {Colors(k, n) : k \in {"list", "string"}, n \in 0..MaxColors}

\* a draft object: every key is absent, empty or set; platforms is a list or
\* a string
Draft(title, audience, colors, platforms, schedule, themes, details) ==
    [title |-> title, target_audience |-> audience, color_scheme |-> colors,
     platforms |-> platforms, posting_schedule |-> schedule,
     content_themes |-> themes, additional_details |-> details]

\* the JSON objects the completion service can return
DraftObjects ==
    {Draft(t, a, c, p, s, th, d) :
        t \in {"absent", "empty", "value"}, a \in {"absent", "value"},
        c \in ColorSchemes, p \in {"absent", "empty", "list", "string"},
        s \in {"absent", "empty", "value"}, th \in {"absent", "value"},
        d \in {"absent", "empty", "value"}}

\* a draft of an earlier call, as send_message passes it to refine_draft
CurrentDraft ==
    Draft("value", "value", Colors("list", 3), "list", "value", "value", "value")

\* required_fields: the default of each key
DraftDefaults ==
    Draft("default", "default", Colors("list", 3), "list", "empty", "empty", "empty")

\* the keys of a draft other than color_scheme
TextKeys == {"title", "target_audience", "platforms", "posting_schedule",
             "content_themes", "additional_details"}

\* not draft[field], for a key other than color_scheme
Falsy(v) == v \in {"absent", "empty"}

\* not draft["color_scheme"]
FalsyColors(c) == c.kind = "absent" \/ (c.kind \in {"list", "string"} /\ c.n = 0)

\* _validate_draft: a missing or falsy key gets its default; a color_scheme
\* shorter than 3, whatever its type, is replaced; platforms that is not a
\* list is replaced
ValidateDraft(draft) ==
    LET filled == [f \in DOMAIN draft |->
                      IF f = "color_scheme"
                      THEN IF FalsyColors(draft[f]) THEN DraftDefaults[f] ELSE draft[f]
                      ELSE IF Falsy(draft[f]) THEN DraftDefaults[f] ELSE draft[f]]
    IN [filled EXCEPT
          !.color_scheme = IF @.n < 3 THEN Colors("list", 3) ELSE @,
          !.platforms = IF @ # "list" THEN "list" ELSE @]

\* len(draft["color_scheme"]) raises for a number
ValidateDraftRaises(draft) == draft.color_scheme.kind = "number"

\* {**current_draft, **refined_draft}
Merge(current_draft, refined_draft) ==
    [f \in DOMAIN current_draft |->
        IF f = "color_scheme"
        THEN IF refined_draft[f].kind = "absent" THEN current_draft[f]
             ELSE refined_draft[f]
        ELSE IF refined_draft[f] = "absent" THEN current_draft[f]
             ELSE refined_draft[f]]

DraftCall(fn, response, done, raised, result) ==
    [fn |-> fn, response |-> response, done |-> done, raised |-> raised,
     result |-> result]

\* generate_initial_draft: agent.run, _parse_json_response, _validate_draft;
\* every exception is raised again
GenerateInitialDraft ==
    /\ call.fn = "generate_initial_draft"
    /\ ~call.done
    /\ call' = IF ~call.response.ok \/ ValidateDraftRaises(call.response.draft)
               THEN [call EXCEPT !.done = TRUE, !.raised = TRUE]
               ELSE [call EXCEPT !.done = TRUE,
                                 !.result = ValidateDraft(call.response.draft)]
    /\ UNCHANGED modVars
    /\ UNCHANGED execVars
    /\ UNCHANGED <<campaign, http>>

\* refine_draft: the parsed object is merged over the current draft, then
\* validated
RefineDraft ==
    /\ call.fn = "refine_draft"
    /\ ~call.done
    /\ LET updated_draft == Merge(CurrentDraft, call.response.draft)
       IN call' = IF ~call.response.ok \/ ValidateDraftRaises(updated_draft)
                  THEN [call EXCEPT !.done = TRUE, !.raised = TRUE]
                  ELSE [call EXCEPT !.done = TRUE,
                                    !.result = ValidateDraft(updated_draft)]
    /\ UNCHANGED modVars
    /\ UNCHANGED execVars
    /\ UNCHANGED <<campaign, http>>

\* one call of generate_initial_draft and one of refine_draft for every
\* object the completion service can return, and for its failure
InitDraft ==
    /\ assets = <<>>
    /\ versions = <<>>
    /\ mods = <<>>
    /\ tasks = <<>>
    /\ loop = 0
    /\ resp = <<>>
    /\ poll = NoPoll
    /\ overwritten = {}
    /\ status = "drafting"
    /\ progress = <<>>
    /\ exec = ExecIdle
    /\ campaign = Campaign(0, 0, 0)
    /\ http = NoHttp
    /\ \E fn \in {"generate_initial_draft", "refine_draft"},
          response \in {[ok |-> FALSE, draft |-> DraftDefaults]}
                          \cup {[ok |-> TRUE, draft |-> d] : d \in DraftObjects} :
         call = DraftCall(fn, response, FALSE, FALSE, DraftDefaults)

NextDraft ==
    \/ GenerateInitialDraft
    \/ RefineDraft

SpecDraft == InitDraft /\ [][NextDraft]_vars

\* ------------------------------------------------------------ properties
\* the asset_versions rows of asset a, in insertion order
RowsOf(a) == SelectSeq(versions, LAMBDA r : r.asset_id = a)

\* an action of task m has just overwritten an asset
JustOverwrote(m) == m \in 1..Len(tasks) /\ tasks[m].last.asset # 0

\* C1: whenever a step changes the row of an existing asset (its content, or
\* its status on the way to a new content), the version row of the action
\* making the change is already in asset_versions before that step
C1_VersionBeforeOverwrite ==
    [][\A a \in 1..Len(assets) :
          assets'[a] # assets[a] =>
              /\ loop \in 1..Len(tasks)
              /\ \E k \in 1..Len(versions) :
                    /\ versions[k].asset_id = a
                    /\ versions[k].mod = loop
                    /\ versions[k].act = tasks[loop].i]_vars

\* an action has replaced an asset's content by a different one
C1_Witness ==
    \E m \in 1..Len(tasks) :
        /\ JustOverwrote(m)
        /\ assets[tasks[m].last.asset].content # tasks[m].last.before

\* C2: after a successful action that overwrote an asset, the asset's
\* highest-numbered version row holds the content the store held for the
\* asset right before the overwrite
C2_HighestVersionHoldsStoreContent ==
    \A m \in 1..Len(tasks) :
        JustOverwrote(m) =>
            \E k \in 1..Len(versions) :
                /\ versions[k].asset_id = tasks[m].last.asset
                /\ versions[k].version_number = LastVersion(tasks[m].last.asset)
                /\ versions[k].content = tasks[m].last.before

\* C3: the version rows of every asset are numbered 1, 2, 3, ... in
\* insertion order, whichever batches inserted them
C3_VersionNumbersSequential ==
    \A a \in 1..Len(assets) :
        \A k \in 1..Len(RowsOf(a)) : RowsOf(a)[k].version_number = k

\* an asset with version rows inserted by two different modifications
C3_Witness ==
    \E a \in 1..Len(assets) :
        /\ Len(RowsOf(a)) >= 2
        /\ RowsOf(a)[1].mod # RowsOf(a)[2].mod

\* C4: every content of an asset that a modification action replaced by
\* another content is the content of some version row of that asset
C4_OverwrittenContentVersioned ==
    \A p \in overwritten :
        \E k \in 1..Len(versions) :
            versions[k].asset_id = p[1] /\ versions[k].content = p[2]

\* C5: a finished batch of n actions has n outcomes, outcome k for action k;
\* an action whose generator call raised is failed with the error text, and
\* every action whose own generator call returned is a success, whatever the
\* other actions of the batch did
C5_OutcomePerAction ==
    \A m \in 1..Len(tasks) :
        LET t == tasks[m]
        IN /\ Len(t.results) \in {t.i - 1, t.i}
           /\ t.pc = "done" => Len(t.results) = Len(t.agents)
           /\ \A k \in 1..Len(t.results) :
                 /\ t.results[k].action = k
                 /\ t.results[k].gen = "raised" =>
                       ~t.results[k].success /\ t.results[k].error # ""
                 /\ t.results[k].gen = "returned" => t.results[k].success

\* a finished batch whose first action's generator raised and whose second
\* action succeeded
C5_Witness ==
    \E m \in 1..Len(tasks) :
        /\ tasks[m].pc = "done"
        /\ Len(tasks[m].results) = 2
        /\ tasks[m].results[1].gen = "raised"
        /\ tasks[m].results[2].success

\* C6: new_content of a modification record is null until every action of its
\* batch has an outcome, and it is written once
C6_NewContentWrittenOnceAtEnd ==
    \A m \in 1..Len(mods) :
        /\ mods[m].new_content # "null" =>
               Len(tasks[m].results) = Len(tasks[m].agents)
        /\ mods[m].writes <= 1

\* C7: a poll answers "completed" exactly when the new_content it read is
\* non-null, and otherwise "processing" with both contents null
C7_PollStatus ==
    poll.mod # 0 =>
        /\ poll.status = "completed" <=> poll.seen # "null"
        /\ poll.seen = "null" =>
               /\ poll.status = "processing"
               /\ poll.previous_content = "null"
               /\ poll.new_content = "null"
        /\ poll.seen # "null" => poll.new_content = poll.seen

\* a poll of a batch suspended in the middle of an action
C7_Witness ==
    /\ poll.mod = 1
    /\ poll.status = "processing"
    /\ tasks[1].pc = "f_wait"

C9_PhaseOneGate ==
    (exec.pc # "start" /\ exec.day = exec.n /\ exec.copy_assets = <<>>) =>
        /\ exec.calls = {}
        /\ exec.pc \notin {"gather", "report"}
        /\ status # "completed"
        /\ exec.pc = "done" => status = "failed" /\ exec.ret = "False"

\* an execution whose copy generation failed on every day of a non-empty
\* schedule, finished
C9_Witness ==
    /\ exec.pc = "done"
    /\ exec.n > 0
    /\ exec.copy_assets = <<>>
    /\ exec.ret = "False"

\* the Phase 2 components with at least one asset in the store
Produced ==
    {type \in {"image", "influencer", "plan"} :
        \E a \in 1..Len(assets) : assets[a].asset_type = type}

C11_FinalDraftImmutable ==
    [][campaign.final_draft_json # 0 =>
           campaign'.final_draft_json = campaign.final_draft_json]_vars

\* C12: the status changes only along drafting -> draft_ready -> executing ->
\* completed or failed
C12_StatusStateMachine ==
    [][status' # status =>
           <<status, status'>> \in {<<"drafting", "draft_ready">>,
                                    <<"draft_ready", "executing">>,
                                    <<"executing", "completed">>,
                                    <<"executing", "failed">>}]_vars

\* C13: at most one copy asset and one image asset per day, at most one plan
C13_AssetsUnique ==
    \A a, b \in 1..Len(assets) :
        (/\ a # b
         /\ assets[a].asset_type = assets[b].asset_type
         /\ assets[a].asset_type \in {"copy", "image", "plan"})
            => assets[a].day_number # assets[b].day_number

\* _get_full_canvas_data: the influencer rows of a store
InfluencerRows(store) ==
    {a \in 1..Len(store) : store[a].asset_type = "influencer"}

\* C14: when an influencer action has saved its new list, the influencer rows
\* of the campaign are the rows of that list and no others
C14_InfluencerSetReplaced ==
    [][\A m \in 1..Len(tasks) :
          (tasks[m].pc = "f_wait" /\ tasks'[m].pc # "f_wait") =>
              InfluencerRows(assets') = (Len(assets) + 1)..Len(assets')]_vars

\* C15: no step removes an asset row or changes its kind, and a content that
\* a step replaces is, after the step, the content of a version row of the
\* asset
C15_NoDeletionContentKept ==
    [][/\ Len(assets') >= Len(assets)
       /\ \A a \in 1..Len(assets) :
             /\ assets'[a].asset_type = assets[a].asset_type
             /\ assets'[a].day_number = assets[a].day_number
             /\ assets'[a].content # assets[a].content =>
                   \E k \in 1..Len(versions') :
                       /\ versions'[k].asset_id = a
                       /\ versions'[k].content = assets[a].content]_vars

\* C16: after regenerate_post_copy with a non-empty fields_to_modify, every
\* key of the previous content outside fields_to_modify holds its previous
\* value in the result, whatever the response was
C16_FieldsPreserved ==
    (call.fn = "regenerate_post_copy" /\ call.done /\ call.fields_to_modify # {}) =>
        \A f \in CopyFields \ call.fields_to_modify :
            call.old_content[f] # "absent" => call.result[f] = call.old_content[f]

\* C17: a copy or image action that ends in "no asset found" writes no
\* version row and changes no asset; a plan action run while the campaign has
\* no plan asset, unless its generator call raises, succeeds and leaves the
\* campaign with exactly one plan asset
C17_MissingAssetHandling ==
    [][\A m \in 1..Len(tasks) :
          (loop = m /\ Len(tasks'[m].results) > Len(tasks[m].results)) =>
              LET agent == tasks'[m].agents[tasks'[m].i]
                  out == tasks'[m].results[Len(tasks'[m].results)]
              IN /\ (agent \in {"content_agent", "image_agent"}
                        /\ out.error = "ValueError") =>
                        (versions' = versions /\ assets' = assets)
                 /\ (agent = "plan_agent" /\ GetPlanRow = 0
                        /\ out.gen # "raised") =>
                        /\ out.success
                        /\ Cardinality({a \in 1..Len(assets') :
                               assets'[a].asset_type = "plan"}) = 1]_vars

\* C18: a modify_canvas request whose planner returned needs_clarification =
\* true creates no modification record, starts no batch and leaves every
\* asset and version row unchanged; a step that creates a modification
\* record belongs to an accepted request whose planner returned a plan
C18_ClarificationCreatesNothing ==
    [][/\ (http' # http /\ http'.planner = "clarify") =>
             /\ http'.code = 400
             /\ http'.mod = 0
             /\ UNCHANGED <<mods, tasks, loop, resp, assets, versions>>
       /\ Len(mods') > Len(mods) =>
             /\ http'.code = 200
             /\ http'.planner = "plan"
             /\ http'.mod = Len(mods')]_vars

\* a clarification request rejected after a record of an earlier request
C18_Witness ==
    /\ http.planner = "clarify"
    /\ http.code = 400
    /\ Len(mods) = 1

\* C19: classify_modification of a blank message returns needs_clarification
\* = true with no action, and generate_json is not called
C19_BlankMessageClarified ==
    (call.fn = "classify_modification" /\ call.done /\ Blank(call.message)) =>
        /\ call.result.needs_clarification
        /\ call.result.actions = <<>>
        /\ ~call.result.llm_called

\* C20: a modify_canvas request whose message is blank, or whose campaign has
\* no draft, is answered 400 inside the request, without the planner, without
\* a modification record and without any change to assets, versions or
\* batches
C20_ValidationRejected ==
    [][(http' # http /\ (http'.blank \/ ~http'.draft)) =>
          /\ http'.code = 400
          /\ http'.planner = "none"
          /\ http'.mod = 0
          /\ UNCHANGED <<mods, tasks, loop, resp, assets, versions>>]_vars

\* a blank message rejected for a campaign that has a draft and a record
C20_Witness ==
    /\ http.code = 400
    /\ http.blank
    /\ http.draft
    /\ http.detail = "Message is required"
    /\ Len(mods) = 1

\* the language-model call raised or returned structurally invalid output
LLMFailed(llm) ==
    \/ llm.kind \in {"raise", "not_dict"}
    \/ \E k \in 1..Len(llm.actions) : llm.actions[k].missing # {}

\* C21: when the language-model call of a planner raises or returns
\* structurally invalid output, the planner returns the result of the
\* rule-based classifier for the message
C21_FallbackToRules ==
    (call.fn \in {"classify_modification", "analyze_modification"}
        /\ call.done /\ call.result.llm_called /\ LLMFailed(call.llm)) =>
        /\ call.result.needs_clarification =
              ClassifyWithRegex(call.message, TRUE).needs_clarification
        /\ call.result.actions = ClassifyWithRegex(call.message, TRUE).actions

\* C22: a planner output taken from the language model or from the rules is
\* returned only if each of its actions carries the four required keys and,
\* when it asks for clarification, it has a clarify_message
C22_ValidationGate ==
    (call.fn \in {"classify_modification", "analyze_modification"}
        /\ call.done /\ call.result.path \in {"llm", "regex"}) =>
        /\ \A k \in 1..Len(call.result.actions) :
              call.result.actions[k].missing \cap RequiredFields = {}
        /\ call.result.needs_clarification => call.result.clarify_message # "none"

\* C23: a message without a day and without "all", classified by the rules,
\* gets needs_clarification = true, or at least no copy or image action
\* whose day is unresolved
C23_NoDayClarifies ==
    (call.fn = "classify_modification" /\ call.done
        /\ call.result.path = "regex"
        /\ \A k \in 1..Len(call.message) : call.message[k] \notin {"day1", "all"}) =>
        \/ call.result.needs_clarification
        \/ \A k \in 1..Len(call.result.actions) :
              call.result.actions[k].asset_type \in {"copy", "image"} =>
                  call.result.actions[k].day # 0

\* C24: a message that asks for all images, classified by the rules, gives
\* one action with apply_to = all, day_numbers = null and asset kind image
C24_AllDaysFanOut ==
    (call.fn = "classify_modification" /\ call.done
        /\ call.result.path = "regex"
        /\ call.message = <<"all", "image">>) =>
        /\ Len(call.result.actions) = 1
        /\ call.result.actions[1].apply_to = "all"
        /\ call.result.actions[1].day = 0
        /\ call.result.actions[1].asset_type = "image"

\* C25: classify_modification of a message that holds the influencer
\* keyword at any position returns, without calling the language model,
\* needs_clarification = false and exactly one action: influencer,
\* regenerate, apply_to = all, day_numbers = null
C25_InfluencerShortCircuit ==
    (call.fn = "classify_modification" /\ call.done
        /\ \E k \in 1..Len(call.message) : call.message[k] = "influencer") =>
        /\ ~call.result.needs_clarification
        /\ ~call.result.llm_called
        /\ Len(call.result.actions) = 1
        /\ call.result.actions[1].asset_type = "influencer"
        /\ call.result.actions[1].action = "regenerate"
        /\ call.result.actions[1].apply_to = "all"
        /\ call.result.actions[1].day = 0

\* the keyword after another word, with a language model that would raise
C25_Witness ==
    /\ call.fn = "classify_modification"
    /\ call.done
    /\ call.message = <<"word", "influencer">>
    /\ call.llm.kind = "raise"
    /\ call.result.path = "keyword"

\* C26: a plan the rules return with needs_clarification = false has no
\* action whose asset kind is outside copy, image, influencer, plan
C26_KnownAssetKinds ==
    (call.fn = "classify_modification" /\ call.done
        /\ call.result.path = "regex" /\ ~call.result.needs_clarification) =>
        \A k \in 1..Len(call.result.actions) :
            call.result.actions[k].asset_type \in {"copy", "image", "influencer", "plan"}

\* C27: a copy action whose completion call failed, regenerate_post_copy
\* having no new content to return, is recorded as failed with the error
\* detail, not as a success
C27_GeneratorFailureRecorded ==
    (call.fn = "regenerate_post_copy" /\ call.recorded /\ ~call.response.ok) =>
        /\ ~call.outcome.success
        /\ call.outcome.error # ""

\* C28: once execute_campaign has written a terminal status (completed or
\* failed), the same run records a progress message describing that outcome
C28_TerminalStatusReported ==
    (exec.pc \in {"report", "failreport"} /\ status \in {"completed", "failed"})
        ~> (/\ exec.pc = "done"
            /\ Len(progress) > 0
            /\ progress[Len(progress)].text =
                  (IF status = "completed" THEN "complete" ELSE "failed"))

\* a run that failed and reported it
C28_Witness ==
    /\ exec.pc = "done"
    /\ status = "failed"
    /\ Len(progress) > 0
    /\ progress[Len(progress)].text = "failed"

\* the asset rows of a type and a day
AssetsOf(type, day) ==
    {a \in 1..Len(assets) : assets[a].asset_type = type /\ assets[a].day_number = day}

\* C29: at every point of an execute_campaign run, every image asset is for
\* a day that has a copy asset of the run, no day has two images, and the
\* days whose copy generation succeeded have exactly one copy asset each,
\* the other days none
C29_ImagesOnlyForCopiedDays ==
    \A day \in 1..(MaxDay + 1) :
        /\ AssetsOf("image", day) # {} => AssetsOf("copy", day) # {}
        /\ Cardinality(AssetsOf("image", day)) <= 1
        /\ Cardinality(AssetsOf("copy", day)) =
              (IF \E k \in 1..Len(exec.copy_assets) : exec.copy_assets[k] = day
               THEN 1 ELSE 0)

\* a finished run whose day 1 copy failed and whose day 2 has copy and image
C29_Witness ==
    /\ exec.pc = "done"
    /\ exec.copy_assets = <<2>>
    /\ AssetsOf("image", 2) # {}
    /\ AssetsOf("copy", 1) = {}

\* C30: a draft returned by generate_initial_draft or refine_draft has the
\* seven keys, a color_scheme that is a list of at least 3 colors and a
\* non-empty list of platforms
C30_DraftComplete ==
    (call.fn \in {"generate_initial_draft", "refine_draft"}
        /\ call.done /\ ~call.raised) =>
        /\ \A f \in TextKeys : call.result[f] # "absent"
        /\ call.result.color_scheme.kind # "absent"
        /\ call.result.color_scheme.kind = "list"
        /\ call.result.color_scheme.n >= 3
        /\ call.result.platforms = "list"


\* ------------------------------------------------------------------- C31
\* C31: for every day-scoped modification action, copy and image alike, the
\* target asset's status is 'generating' while the generator call is in
\* flight, so a reader of the asset sees 'generating' at that moment.
C31_GeneratingWhileInFlight ==
    \A m \in 1..Len(tasks) :
        (tasks[m].pc \in {"c_generate", "i_generate"}
            /\ tasks[m].asset \in 1..Len(assets))
        => assets[tasks[m].asset].status = "generating"

\* ------------------------------------------------------------------- C32
\* C32: when a modification action has persisted a generator result, the
\* generation metadata written with the new content records which fields
\* changed relative to the snapshot taken for the action.
C32_ChangedFieldsRecorded ==
    \A m \in 1..Len(tasks) :
        JustOverwrote(m) => "changed_fields" \in assets[tasks[m].last.asset].meta

\* ------------------------------------------------------------------- C33
\* C33: in the rule-based classifier every non-empty clause yields one
\* action; a clause the verb pattern does not match yields modify_content on
\* the kind chosen by keyword priority plan, then image, then copy; every
\* action has a non-empty instruction and a target with the keys
\* day_numbers, apply_to and match_text.
C33_FallbackGuess ==
    (call.fn = "classify_modification" /\ call.done /\ call.result.path = "regex") =>
        LET parts == StrippedParts(call.message)
            actions == call.result.actions
        IN /\ Len(actions) = Len(parts)
           /\ \A k \in 1..Len(actions) :
                 /\ actions[k].user_instruction # <<>>
                 /\ actions[k].target = {"day_numbers", "apply_to", "match_text"}
                 /\ ~MatchesVerb(parts[k]) =>
                       /\ actions[k].action = "modify_content"
                       /\ actions[k].asset_type =
                             IF \E j \in 1..Len(parts[k]) : parts[k][j] = "plan"
                             THEN "plan"
                             ELSE IF \E j \in 1..Len(parts[k]) : parts[k][j] = "image"
                             THEN "image"
                             ELSE "copy"

\* the rules classify "image plan", which names both keywords, as a plan
C33_Witness ==
    /\ call.fn = "classify_modification"
    /\ call.done
    /\ call.result.path = "regex"
    /\ call.message = <<"image", "plan">>
    /\ Len(call.result.actions) = 1
    /\ call.result.actions[1].asset_type = "plan"
    /\ call.result.actions[1].user_instruction = <<"image", "plan">>

\* ------------------------------------------------------------------- C34
\* C34: every submitted modification batch eventually completes for the
\* poller: when every generator call returns or raises and the store takes
\* the writes, new_content of the modification record eventually becomes
\* non-null, even when every action of the batch fails.
C34_BatchEventuallyDone ==
    (Len(mods) >= 1) ~> (Len(mods) >= 1 /\ IsDone(mods[1]))

\* a batch whose every action failed is finished and its record is done
C34_Witness ==
    /\ Len(mods) >= 1
    /\ tasks[1].pc = "done"
    /\ Len(tasks[1].results) >= 1
    /\ \A k \in 1..Len(tasks[1].results) : ~tasks[1].results[k].success
    /\ IsDone(mods[1])

\* ------------------------------------------------------------------- C35
\* C35: within one batch the actions run one at a time in list order: action
\* i + 1 starts, and writes its version row, only when the outcomes of
\* actions 1..i are recorded, and every outcome recorded is the outcome of
\* the action that was started last.
C35_ListOrder ==
    [][\A m \in 1..Len(tasks) :
          /\ tasks'[m].i \in {tasks[m].i, tasks[m].i + 1}
          /\ tasks'[m].i = tasks[m].i + 1 => Len(tasks[m].results) = tasks[m].i
          /\ Len(tasks'[m].results) \in
                {Len(tasks[m].results), Len(tasks[m].results) + 1}
          /\ Len(tasks'[m].results) = Len(tasks[m].results) + 1 =>
                /\ Len(tasks'[m].results) = tasks'[m].i
                /\ tasks'[m].results[tasks'[m].i].action = tasks'[m].i
          /\ \A k \in (Len(versions) + 1)..Len(versions') :
                versions'[k].mod = m =>
                    /\ versions'[k].act = tasks'[m].i
                    /\ Len(tasks[m].results) = tasks'[m].i - 1
          /\ (assets' # assets) /\ loop = m =>
                Len(tasks[m].results) = tasks'[m].i - 1]_vars

\* a batch has versioned the same asset for its first and for its second
\* action, and both outcomes are recorded
C35_Witness ==
    /\ Len(tasks) >= 1
    /\ Len(tasks[1].results) = 2
    /\ \E j, k \in 1..Len(versions) :
          /\ j < k
          /\ versions[j].asset_id = versions[k].asset_id
          /\ versions[j].asset_id # 0
          /\ versions[j].mod = 1 /\ versions[k].mod = 1
          /\ versions[j].act = 1 /\ versions[k].act = 2

\* ------------------------------------------------------------------- C36
\* C36: a copy, image or plan action recorded as failed leaves the content
\* of every asset as it found it: a step that changes anything but the
\* status and metadata of an asset row is a step that records a successful
\* outcome, the step that records a failure changes no row at all, and an
\* action adds at most one version row.
C36_FailureKeepsContent ==
    [][\A m \in 1..Len(tasks) :
          LET n == Len(tasks'[m].results)
              recorded == n = Len(tasks[m].results) + 1
          IN /\ loop = m =>
                  /\ Len(assets') >= Len(assets)
                  /\ \A a \in 1..Len(assets) :
                        [assets'[a] EXCEPT !.status = assets[a].status,
                                           !.meta = assets[a].meta] # assets[a]
                        => recorded /\ tasks'[m].results[n].success
             /\ (recorded /\ ~tasks'[m].results[n].success
                   /\ tasks[m].agents[n] \in {"content_agent", "image_agent", "plan_agent"})
                => /\ assets' = assets
                   /\ Cardinality({k \in 1..Len(versions') :
                          versions'[k].mod = m /\ versions'[k].act = n}) <= 1]_vars

\* an image action has failed after its version row and its status update:
\* the image still has the content it had
C36_Witness ==
    /\ Len(tasks) >= 1
    /\ \E n \in 1..Len(tasks[1].results) :
          /\ ~tasks[1].results[n].success
          /\ tasks[1].results[n].gen = "raised"
          /\ tasks[1].agents[n] = "image_agent"
          /\ \E k \in 1..Len(versions) : versions[k].mod = 1 /\ versions[k].act = n
    /\ assets[2].status = "generating"
    /\ assets[2].content = InitAssets[2].content

\* ------------------------------------------------------------------- C37
\* C37: once a batch has finished, no asset it touched is left with status
\* 'generating'; an image action whose generator call raised ends with the
\* asset in a status that is not in progress.
C37_NoAssetLeftGenerating ==
    \A m \in 1..Len(tasks) :
        tasks[m].pc = "done" =>
            \A k \in 1..Len(versions) :
                (versions[k].mod = m /\ versions[k].asset_id \in 1..Len(assets))
                => assets[versions[k].asset_id].status # "generating"

\* ------------------------------------------------------------------- C38
\* C38: every asset_versions row the pipeline writes refers to an existing
\* asset, and an action that versioned its target and is recorded as
\* successful has overwritten an existing asset row; no row carries a null
\* asset id.
C38_VersionsReferToAssets ==
    /\ \A k \in 1..Len(versions) : versions[k].asset_id \in 1..Len(assets)
    /\ \A m \in 1..Len(tasks) :
          (/\ tasks[m].pc = "next"
           /\ tasks[m].i >= 1
           /\ Len(tasks[m].results) = tasks[m].i
           /\ tasks[m].results[tasks[m].i].success
           /\ \E k \in 1..Len(versions) :
                 versions[k].mod = m /\ versions[k].act = tasks[m].i)
          => tasks[m].last.asset \in 1..Len(assets)

\* ------------------------------------------------------------------- C39
\* C39: within one execute_campaign run the terminal status is written
\* once: a status 'completed' is never replaced by 'failed', and the run
\* returns True exactly when the status it leaves is 'completed'.
C39_TerminalStatusOnce ==
    [][/\ status = "completed" => status' # "failed"
       /\ exec'.pc = "done" => (exec'.ret = "True" <=> status' = "completed")]_vars

====
